---------------------------- MODULE Spec2Model ----------------------------
(***************************************************************************)
(* Model of the pool dispatcher of process-pool-demo (src/utils.py):       *)
(* display_results drives submit_get_results or map_results, which open a  *)
(* scoped concurrent.futures pool, submit n indexed tasks, collect the     *)
(* (result, elapsed) pairs and unzip them into two batches.                *)
(*                                                                         *)
(* Under Spec one behaviour is one call of display_results.  The caller's  *)
(* position is pc; the pool's workers run concurrently with it (Enqueue,   *)
(* Start, Finish, WorkerExit).  pool.submit, pool.map, Future.result,      *)
(* as_completed and the pool's __exit__ are modelled at the call sites in  *)
(* src/utils.py with the behaviour concurrent.futures gives them.          *)
(* SpecTwice lets the same call be made a second time after the first has  *)
(* ended; SpecShared runs a second dispatcher invocation beside it.        *)
(***************************************************************************)
EXTENDS Integers, Sequences, FiniteSets, TLC

\* Bounds of the model.
MaxN == 3
MaxWorkers == 2

\* The elapsed times an adapter invocation may report (abstract clock units).
ElapsedValues == {0, 1}

Indices == 0..(MaxN - 1)

NoPair == <<>>
NoTime == -1
NoExc == [type |-> "none", index |-> -1]
ValueError == [type |-> "ValueError", index |-> -1]
AdapterFailure(i) == [type |-> "AdapterFailure", index |-> i]

VARIABLES
    \* inputs of display_results (fixed by Init)
    n, pool_type, submit_type, as_completed, max_workers,
    fails,          \* the task indices for which timed_fun raises
    \* the caller
    pc, exc, out,
    \* f_timed around the dispatcher: the first clock reading, the elapsed
    \* time it returns, and how often it has called the dispatcher
    t0, total_time, invoked,
    tasks,          \* the handles submitted so far, in submission order
    results_times,  \* the pairs gathered so far
    results, times, \* the returned batches
    \* as_completed's generator
    ac_started, ac_finished, ac_pending, waiter,
    ac_snapshot,    \* the futures as_completed found done when it started
    \* the pool
    pool, alive, fut, pair,
    finished,       \* the task indices in the order their invocations ended
    \* counters: submissions, executions and consumptions per task index
    submits, runs, consumed,
    \* a repeated call: whether this is the second call with the same
    \* arguments, and what the first call gave its caller
    second, prev,
    \* pool objects: the pools constructed so far, the pool this dispatch
    \* bound in its with statement, and the pool whose worker ran each task
    created, executor, ran_on,
    \* another invocation of the dispatcher, with one task: its position, its
    \* pool, its list of handles and the pool whose worker ran its task
    o_pc, o_executor, o_tasks, o_ran_on

vars == <<n, pool_type, submit_type, as_completed, max_workers, fails,
          pc, exc, out, t0, total_time, invoked,
          tasks, results_times, results, times,
          ac_started, ac_finished, ac_pending, waiter, ac_snapshot,
          pool, alive, fut, pair, finished, submits, runs, consumed,
          second, prev, created, executor, ran_on,
          o_pc, o_executor, o_tasks, o_ran_on>>

inputs == <<n, pool_type, submit_type, as_completed, max_workers, fails>>
callerVars == <<pc, exc, out, tasks, results_times, results, times>>
timedVars == <<t0, total_time, invoked>>
acVars == <<ac_started, ac_finished, ac_pending, waiter, ac_snapshot>>
poolVars == <<pool, alive, fut, pair, finished>>
counters == <<submits, runs, consumed>>
callVars == <<second, prev>>
ownerVars == <<created, executor, ran_on>>
otherVars == <<o_pc, o_executor, o_tasks, o_ran_on>>

\* No pool object.
NoPool == 0
\* What a call that has not been made gave its caller.
NoCall == [exc |-> NoExc, results |-> <<>>]

-----------------------------------------------------------------------------
(* Pure helpers *)

\* The value the adapter returns for task index i (delayed_return returns
\* its first argument).
AdapterValue(i) == i

\* Faulty variant of ZipStar: the two components come out in the opposite
\* order (times, results = zip(...)).
ZipStarSwapped(rt) ==
    IF rt = <<>> THEN <<>>
    ELSE [j \in 1..2 |-> [k \in 1..Len(rt) |-> rt[k][3 - j]]]

\* zip(*results_times): one tuple per component of the pairs; no argument,
\* no tuple.
ZipStar(rt) ==
    IF rt = <<>> THEN <<>>
    ELSE [j \in 1..2 |-> [k \in 1..Len(rt) |-> rt[k][j]]]

\* All orders in which the elements of the finite set S can be listed.
RECURSIVE Orders(_)
Orders(S) ==
    IF S = {} THEN {<<>>}
    ELSE UNION {{<<x>> \o s : s \in Orders(S \ {x})} : x \in S}

SeqToSet(s) == {s[k] : k \in 1..Len(s)}

\* The sum of f[i] over the finite set S.
RECURSIVE SumOver(_, _)
SumOver(f, S) ==
    IF S = {} THEN 0
    ELSE LET x == CHOOSE y \in S : TRUE IN f[x] + SumOver(f, S \ {x})

\* time(): logical time, the number of pool events (submissions, task
\* starts, task ends, results taken) so far; a later reading is never
\* smaller than an earlier one.
Now ==
    SumOver(submits, Indices) + SumOver(runs, Indices) + Len(finished)
        + SumOver(consumed, Indices)

Done(i) == fut[i] \in {"FINISHED", "FAILED", "CANCELLED"}
Running == {i \in Indices : fut[i] = "RUNNING"}
Queued == {i \in Indices : fut[i] \in {"PENDING", "CALLED"}}


-----------------------------------------------------------------------------
(* Initial state: display_results has been called and nothing has run. *)

Init ==
    /\ n \in 0..MaxN
    /\ pool_type \in {"thread", "process"}
    /\ submit_type \in {"submit", "map", "other"}
    \* as_completed is read only by the 'submit' branch; elsewhere it keeps
    \* its default
    /\ as_completed \in (IF submit_type = "submit" THEN BOOLEAN ELSE {FALSE})
    \* max_workers=None resolves to the backend's default, a positive integer
    /\ max_workers \in 1..MaxWorkers
    /\ fails \in SUBSET (0..(n - 1))
    /\ pc = "display"
    /\ exc = NoExc
    /\ out = <<>>
    /\ t0 = NoTime
    /\ total_time = NoTime
    /\ invoked = 0
    /\ tasks = <<>>
    /\ results_times = <<>>
    /\ results = <<>>
    /\ times = <<>>
    /\ ac_started = FALSE
    /\ ac_finished = <<>>
    /\ ac_pending = {}
    /\ waiter = <<>>
    /\ ac_snapshot = {}
    /\ pool = "none"
    /\ alive = 0
    /\ fut = [i \in Indices |-> "NONE"]
    /\ pair = [i \in Indices |-> NoPair]
    /\ finished = <<>>
    /\ submits = [i \in Indices |-> 0]
    /\ runs = [i \in Indices |-> 0]
    /\ consumed = [i \in Indices |-> 0]
    /\ second = FALSE
    /\ prev = NoCall
    /\ created = {}
    /\ executor = NoPool
    /\ ran_on = [i \in Indices |-> NoPool]
    /\ o_pc = "idle"
    /\ o_executor = NoPool
    /\ o_tasks = {}
    /\ o_ran_on = NoPool

-----------------------------------------------------------------------------
(* display_results and the timed wrapper around the dispatcher *)

\* Faulty variant of Dispatches: the final else branch dispatches too
\* instead of raising.
DispatchesAny(st) == TRUE

\* The submit_type values that select a dispatcher.
Dispatches(st) == st \in {"submit", "map"}

\* display_results up to the dispatcher call: the "Running" line, then the
\* branch on submit_type; an unrecognized value raises ValueError.
DisplayStart ==
    /\ pc = "display"
    /\ out' = Append(out, "Running")
    /\ IF Dispatches(submit_type)
       THEN pc' = "timed" /\ exc' = exc
       ELSE pc' = "raised" /\ exc' = ValueError
    /\ UNCHANGED <<inputs, callVars, otherVars, ownerVars, timedVars, tasks, results_times, results, times, acVars,
                   poolVars, counters>>

\* f_timed: t0 = time(), then the call of the wrapped dispatcher.
TimedStart ==
    /\ pc = "timed"
    /\ t0' = Now
    /\ invoked' = invoked + 1
    /\ pc' = "with"
    /\ UNCHANGED <<inputs, callVars, otherVars, ownerVars, total_time, exc, out, tasks, results_times, results, times,
                   acVars, poolVars, counters>>

\* Faulty variant of Fresh: every call is handed one and the same pool.
FreshShared(ps) == 1

\* pool_type(max_workers) constructs a new pool object, distinct from every
\* pool constructed before.
Fresh(ps) == Cardinality(ps) + 1

\* with pool_type(max_workers) as pool: the pool is created, no worker yet.
PoolEnter ==
    /\ pc = "with"
    /\ pool = "none"
    /\ pool' = "open"
    /\ executor' = Fresh(created)
    /\ created' = created \cup {executor'}
    /\ pc' = "submit"
    /\ UNCHANGED <<inputs, callVars, otherVars, ran_on, timedVars, exc, out, tasks, results_times, results, times,
                   acVars, alive, fut, pair, finished, counters>>

-----------------------------------------------------------------------------
(* Submission: the for loop of submit_get_results, and the list of submits *)
(* pool.map makes before it returns its result iterator.                   *)

\* The index the next pool.submit is given: the loop variable of range(n).
SubmitIndex(ts) == Len(ts)

\* Faulty variant of MoreToSubmit: the loop stops one index early.
MoreToSubmitShort(ts) == Len(ts) < n - 1

\* range(n) is not exhausted.
MoreToSubmit(ts) == Len(ts) < n

\* Faulty variant of Grown: every submission adds a worker.
GrownUnbounded(a) == a + 1

\* The number of workers after a submission to a pool of a workers: the pool
\* was created with max_workers and never holds more.
Grown(a) == IF a < max_workers THEN a + 1 ELSE a

\* pool.submit(pfun, i): a new PENDING future is queued and the pool grows
\* by one worker while it has fewer than max_workers.
Submit ==
    /\ pc = "submit"
    /\ MoreToSubmit(tasks)
    /\ LET i == SubmitIndex(tasks) IN
         /\ tasks' = Append(tasks, i)
         /\ fut' = [fut EXCEPT ![i] = "PENDING"]
         /\ submits' = [submits EXCEPT ![i] = @ + 1]
    /\ alive' = Grown(alive)
    /\ UNCHANGED <<inputs, callVars, otherVars, ownerVars, timedVars, pc, exc, out, results_times, results, times,
                   acVars, pool, pair, finished, runs, consumed>>

SubmitEnd ==
    /\ pc = "submit"
    /\ ~MoreToSubmit(tasks)
    /\ pc' = "collect"
    /\ UNCHANGED <<inputs, callVars, otherVars, ownerVars, timedVars, exc, out, tasks, results_times, results, times,
                   acVars, poolVars, counters>>

-----------------------------------------------------------------------------
(* Collection *)

\* Faulty variant of Surfaced: the failure is swallowed.
SurfacedSwallowed(i) == NoExc

\* Faulty variant of Surfaced: the failure raised is that of the task that
\* failed first in time.
SurfacedFirstFailed(i) ==
    LET ks == {k \in 1..Len(finished) : fut[finished[k]] = "FAILED"}
    IN IF ks = {} THEN AdapterFailure(i)
       ELSE AdapterFailure(finished[CHOOSE k \in ks : \A m \in ks : k <= m])

\* What the caller sees when task.result() re-raises the adapter's failure.
Surfaced(i) == AdapterFailure(i)

\* task.result() inside the list comprehension: blocks until the future is
\* done, then yields its pair to the list being built or re-raises the
\* adapter's exception, which leaves the with block.
TakeResult(i) ==
    /\ Done(i)
    /\ IF fut[i] = "FINISHED"
       THEN /\ results_times' = Append(results_times, pair[i])
            /\ consumed' = [consumed EXCEPT ![i] = @ + 1]
            /\ UNCHANGED <<pc, exc>>
       ELSE /\ exc' = Surfaced(i)
            /\ pc' = "exit"
            /\ UNCHANGED <<results_times, consumed>>

\* Faulty variant of NextHandle: the handles are taken from the end of the
\* list.
NextHandleFromEnd(ts, rt) == ts[Len(ts) - Len(rt)]

\* Faulty variant of NextHandle: the collector skips a handle that is not
\* done and takes the first handle that is done and not yet taken.
NextHandleSkipBlocked(ts, rt) ==
    LET ready == {k \in 1..Len(ts) : Done(ts[k]) /\ consumed[ts[k]] = 0}
    IN IF ready = {} THEN ts[Len(rt) + 1]
       ELSE ts[CHOOSE k \in ready : \A m \in ready : k <= m]

\* The handle the ordered collector waits on next: tasks are iterated in
\* list order and every collected pair advanced the iteration by one.
NextHandle(ts, rt) == ts[Len(rt) + 1]

\* [task.result() for task in tasks]
CollectOrdered ==
    /\ pc = "collect"
    /\ submit_type = "submit"
    /\ ~as_completed
    /\ Len(results_times) < Len(tasks)
    /\ TakeResult(NextHandle(tasks, results_times))
    /\ UNCHANGED <<inputs, callVars, otherVars, ownerVars, timedVars, out, tasks, results, times, acVars, poolVars,
                   submits, runs>>

\* Faulty variant of Cancellable: a running future is marked cancelled too.
CancellableRunning(i) == fut[i] \in {"PENDING", "RUNNING"}

\* Future.cancel() succeeds only on a future no worker has taken.
Cancellable(i) == fut[i] = "PENDING"

\* The handles result_iterator still holds after popping the one at
\* position k.
Remaining(ts, k) == {ts[j] : j \in (k + 1)..Len(ts)}

\* Faulty variant of MapNext: the handles are popped without the list
\* having been reversed, last submitted first.
MapNextNoReverse(ts, rt) == ts[Len(ts) - Len(rt)]

\* The handle pool.map's result iterator pops next: the list of futures is
\* reversed once and popped from its end, which is submission order.
MapNext(ts, rt) == ts[Len(rt) + 1]

\* zip(*results_times) draining pool.map's result iterator: results come in
\* submission order; when one raises, the iterator's finally clause cancels
\* every future it still holds before the exception leaves it.  (The cancels
\* run from the last handle down while workers take the first queued task,
\* so cancelling all still-PENDING futures at once loses no outcome.)
CollectMap ==
    /\ pc = "collect"
    /\ submit_type = "map"
    /\ Len(results_times) < Len(tasks)
    /\ LET k == Len(results_times) + 1
           i == MapNext(tasks, results_times)
       IN /\ TakeResult(i)
          /\ fut' = IF fut[i] = "FINISHED" THEN fut
                    ELSE [j \in Indices |->
                            IF j \in Remaining(tasks, k) /\ Cancellable(j)
                            THEN "CANCELLED" ELSE fut[j]]
    /\ UNCHANGED <<inputs, callVars, otherVars, ownerVars, timedVars, out, tasks, results, times, acVars, pool, alive,
                   pair, finished, submits, runs>>

\* The futures as_completed finds already done when it is first advanced.
AcSnapshot == {i \in SeqToSet(tasks) : Done(i)}

\* First next() on concurrent.futures.as_completed(tasks): the futures
\* already done are put in a list (built from a set: any order), the others
\* are pending, and a waiter is installed on every future.
AcStart ==
    /\ pc = "collect"
    /\ submit_type = "submit"
    /\ as_completed
    /\ ~ac_started
    /\ ac_started' = TRUE
    /\ ac_finished' \in Orders(AcSnapshot)
    /\ ac_pending' = SeqToSet(tasks) \ AcSnapshot
    /\ ac_snapshot' = AcSnapshot
    /\ waiter' = <<>>
    /\ UNCHANGED <<inputs, callVars, otherVars, ownerVars, timedVars, callerVars, poolVars, counters>>

\* as_completed yields the next finished future and the comprehension calls
\* its result().
AcYield ==
    /\ pc = "collect"
    /\ ac_started
    /\ ac_finished # <<>>
    /\ ac_finished' = Tail(ac_finished)
    /\ ac_pending' = ac_pending \ {Head(ac_finished)}
    /\ TakeResult(Head(ac_finished))
    /\ UNCHANGED <<inputs, callVars, otherVars, ownerVars, timedVars, out, tasks, results, times, ac_started, waiter,
                   ac_snapshot, poolVars, submits, runs>>

\* Faulty variant of Drained: the waiter's list is not emptied.
DrainedKept(w) == w

\* What is left in waiter.finished_futures once as_completed has taken
\* the list.
Drained(w) == <<>>

\* Faulty variant of Batch: the list is yielded from its end, last finished
\* first.
BatchReversed(w) == [k \in 1..Len(w) |-> w[Len(w) + 1 - k]]

\* The order in which as_completed yields the futures of the waiter's list:
\* the list is reversed and then popped from its end, which is the order in
\* which the futures finished.
Batch(w) == w

\* as_completed waits on the waiter's event, then takes the futures that
\* finished since, in finishing order, and empties the waiter's list.
AcWait ==
    /\ pc = "collect"
    /\ ac_started
    /\ ac_finished = <<>>
    /\ ac_pending # {}
    /\ waiter # <<>>
    /\ ac_finished' = Batch(waiter)
    /\ waiter' = Drained(waiter)
    /\ UNCHANGED <<inputs, callVars, otherVars, ownerVars, timedVars, callerVars, ac_started, ac_pending, ac_snapshot,
                   poolVars, counters>>

\* The iteration is exhausted: the list of pairs is complete.
CollectEnd ==
    /\ pc = "collect"
    /\ IF submit_type = "submit" /\ as_completed
       THEN ac_started /\ ac_finished = <<>> /\ ac_pending = {}
       ELSE Len(results_times) = Len(tasks)
    /\ pc' = "zip"
    /\ UNCHANGED <<inputs, callVars, otherVars, ownerVars, timedVars, exc, out, tasks, results_times, results, times,
                   acVars, poolVars, counters>>

\* results, times = zip(*results_times); return results, times.  Unpacking
\* needs exactly two tuples, else ValueError.
Unzip ==
    /\ pc = "zip"
    /\ LET z == ZipStar(results_times) IN
         IF Len(z) = 2
         THEN results' = z[1] /\ times' = z[2] /\ exc' = exc
         ELSE exc' = ValueError /\ UNCHANGED <<results, times>>
    /\ pc' = "exit"
    /\ UNCHANGED <<inputs, callVars, otherVars, ownerVars, timedVars, out, tasks, results_times, acVars, poolVars,
                   counters>>

-----------------------------------------------------------------------------
(* Teardown and return *)

\* Leaving the with block, by return or by exception: pool.__exit__ calls
\* shutdown(wait=True), which flags the pool and then joins its workers.
PoolExit ==
    /\ pc = "exit"
    /\ pool' = "shutdown"
    /\ pc' = "join"
    /\ UNCHANGED <<inputs, callVars, otherVars, ownerVars, timedVars, exc, out, tasks, results_times, results, times,
                   acVars, alive, fut, pair, finished, counters>>

\* Faulty variant of Joined: the pool is shut down without waiting.
JoinedNoWait == TRUE

\* shutdown(wait=True) returns once every worker has been joined.
Joined == alive = 0

\* Faulty variant of AfterCall: f_timed catches the failure of f and goes
\* on to return a pair.
AfterCallSwallowed(e) == "timed_ret"

\* Where control goes when the call of f inside f_timed ends: on to the
\* second clock reading when f returned, out of f_timed (and out of
\* display_results, which has no handler either) when f raised e.
AfterCall(e) == IF e = NoExc THEN "timed_ret" ELSE "raised"

\* __exit__ returns; the dispatcher returns its value to f_timed or its
\* exception goes on to the caller.
Join ==
    /\ pc = "join"
    /\ Joined
    /\ pc' = AfterCall(exc)
    /\ UNCHANGED <<inputs, callVars, otherVars, ownerVars, timedVars, exc, out, tasks, results_times, results, times,
                   acVars, poolVars, counters>>

\* f_timed: t = time() - t0; return result, t.
TimedReturn ==
    /\ pc = "timed_ret"
    /\ total_time' = Now - t0
    /\ pc' = "report"
    /\ UNCHANGED <<inputs, callVars, otherVars, ownerVars, t0, invoked, exc, out, tasks, results_times, results, times,
                   acVars, poolVars, counters>>

\* Faulty variant of AtReport: the summary is written in a finally clause,
\* also when the dispatch raised.
AtReportOrRaised == pc \in {"report", "raised"}

\* display_results reaches its three summary lines: the dispatch call has
\* returned and been unpacked.
AtReport == pc = "report"

\* display_results writes the results, the task times and the actual time.
DisplayReport ==
    /\ AtReport
    /\ out' = out \o <<"Results", "Task times", "Actual time">>
    /\ pc' = "done"
    /\ UNCHANGED <<inputs, callVars, otherVars, ownerVars, timedVars, exc, tasks, results_times, results, times,
                   acVars, poolVars, counters>>

-----------------------------------------------------------------------------
(* The pool's workers *)

\* Queues are first in, first out: i is the oldest future in state st.
Oldest(i, st) == fut[i] = st /\ \A j \in Indices : j < i => fut[j] # st

\* ProcessPoolExecutor only: the queue-management thread moves the oldest
\* pending work item to the call queue, which holds at most max_workers + 1
\* items; its future is set RUNNING there and can no longer be cancelled.
Enqueue(i) ==
    /\ pool_type = "process"
    /\ Oldest(i, "PENDING")
    /\ Cardinality({j \in Indices : fut[j] = "CALLED"}) < max_workers + 1
    /\ fut' = [fut EXCEPT ![i] = "CALLED"]
    /\ UNCHANGED <<inputs, callVars, otherVars, ownerVars, timedVars, callerVars, acVars, pool, alive, pair, finished,
                   counters>>

\* Faulty variant of WorkerFree: one worker of the pool never takes a task.
WorkerFreeStrict == Cardinality(Running) < alive - 1

\* A worker is free to take a task.
WorkerFree == Cardinality(Running) < alive

\* An idle worker of this dispatch's pool takes the oldest task queued on it
\* and invokes the adapter.
Start(i) ==
    /\ Oldest(i, IF pool_type = "process" THEN "CALLED" ELSE "PENDING")
    /\ WorkerFree
    /\ fut' = [fut EXCEPT ![i] = "RUNNING"]
    /\ runs' = [runs EXCEPT ![i] = @ + 1]
    /\ ran_on' = [ran_on EXCEPT ![i] = executor]
    /\ UNCHANGED <<inputs, callVars, otherVars, created, executor, timedVars, callerVars, acVars, pool, alive, pair, finished,
                   submits, consumed>>

\* The adapter invocation ends: timed_fun(i) returns (value, elapsed) or
\* raises; the future is resolved and the installed waiter is told.
Finish(i) ==
    /\ fut[i] = "RUNNING"
    /\ IF i \in fails
       THEN fut' = [fut EXCEPT ![i] = "FAILED"] /\ pair' = pair
       ELSE \E e \in ElapsedValues :
              /\ fut' = [fut EXCEPT ![i] = "FINISHED"]
              /\ pair' = [pair EXCEPT ![i] = <<AdapterValue(i), e>>]
    /\ finished' = Append(finished, i)
    /\ waiter' = IF ac_started /\ pc = "collect"
                 THEN Append(waiter, i) ELSE waiter
    /\ UNCHANGED <<inputs, callVars, otherVars, ownerVars, timedVars, callerVars, ac_started, ac_finished, ac_pending,
                   ac_snapshot, pool, alive, counters>>

\* A worker leaves once the pool is shut down and no work is queued.
MayExit == pool = "shutdown" /\ Queued = {}

WorkerExit ==
    /\ MayExit
    /\ WorkerFree
    /\ alive' = alive - 1
    /\ UNCHANGED <<inputs, callVars, otherVars, ownerVars, timedVars, callerVars, acVars, pool, fut, pair, finished,
                   counters>>

-----------------------------------------------------------------------------

Caller ==
    \/ DisplayStart
    \/ TimedStart
    \/ PoolEnter
    \/ Submit
    \/ SubmitEnd
    \/ CollectOrdered
    \/ CollectMap
    \/ AcStart
    \/ AcYield
    \/ AcWait
    \/ CollectEnd
    \/ Unzip
    \/ PoolExit
    \/ Join
    \/ TimedReturn
    \/ DisplayReport

Workers ==
    \/ \E i \in Indices : Enqueue(i)
    \/ \E i \in Indices : Start(i)
    \/ \E i \in Indices : Finish(i)
    \/ WorkerExit

Next == Caller \/ Workers

Spec == Init /\ [][Next]_vars

\* The caller runs whenever it is not blocked and the pool's workers are
\* scheduled fairly.
FairSpec == Spec /\ WF_vars(Caller) /\ WF_vars(Workers)

-----------------------------------------------------------------------------
(* A second call with the same arguments *)

\* display_results has ended, by returning or by raising.
Ended == pc \in {"done", "raised"}

\* display_results is called again with the same arguments once the first
\* call has ended: every local of the first call is gone, the pools it
\* constructed are not handed out again.
CallAgain ==
    /\ Ended
    /\ ~second
    /\ second' = TRUE
    /\ prev' = [exc |-> exc, results |-> results]
    /\ pc' = "display"
    /\ exc' = NoExc
    /\ out' = <<>>
    /\ t0' = NoTime
    /\ total_time' = NoTime
    /\ invoked' = 0
    /\ tasks' = <<>>
    /\ results_times' = <<>>
    /\ results' = <<>>
    /\ times' = <<>>
    /\ ac_started' = FALSE
    /\ ac_finished' = <<>>
    /\ ac_pending' = {}
    /\ waiter' = <<>>
    /\ ac_snapshot' = {}
    /\ pool' = "none"
    /\ alive' = 0
    /\ fut' = [i \in Indices |-> "NONE"]
    /\ pair' = [i \in Indices |-> NoPair]
    /\ finished' = <<>>
    /\ submits' = [i \in Indices |-> 0]
    /\ runs' = [i \in Indices |-> 0]
    /\ consumed' = [i \in Indices |-> 0]
    /\ executor' = NoPool
    /\ ran_on' = [i \in Indices |-> NoPool]
    /\ UNCHANGED <<inputs, otherVars, created>>

NextTwice == Next \/ CallAgain

SpecTwice == Init /\ [][NextTwice]_vars

-----------------------------------------------------------------------------
(* Another invocation of the dispatcher, running before, beside or after   *)
(* this one.  It executes the same with statement and submits one task; it *)
(* is followed only as far as its pool and its handle.                     *)

\* The other invocation enters its with statement and constructs its pool.
OtherEnter ==
    /\ o_pc = "idle"
    /\ o_executor' = Fresh(created)
    /\ created' = created \cup {o_executor'}
    /\ o_pc' = "submit"
    /\ UNCHANGED <<inputs, callVars, timedVars, callerVars, acVars, poolVars,
                   counters, executor, ran_on, o_tasks, o_ran_on>>

\* It submits its task to its pool and keeps the handle in its own list.  A
\* handle is identified by the pool that issued it and the index submitted.
OtherSubmit ==
    /\ o_pc = "submit"
    /\ o_tasks' = {<<o_executor, 0>>}
    /\ o_pc' = "collect"
    /\ UNCHANGED <<inputs, callVars, timedVars, callerVars, acVars, poolVars,
                   counters, ownerVars, o_executor, o_ran_on>>

\* A worker of the other invocation's pool runs its task.
OtherRun ==
    /\ o_pc = "collect"
    /\ o_ran_on = NoPool
    /\ o_ran_on' = o_executor
    /\ UNCHANGED <<inputs, callVars, timedVars, callerVars, acVars, poolVars,
                   counters, ownerVars, o_pc, o_executor, o_tasks>>

\* It collects the outcome, leaves its with statement and returns.
OtherExit ==
    /\ o_pc = "collect"
    /\ o_ran_on # NoPool
    /\ o_pc' = "done"
    /\ UNCHANGED <<inputs, callVars, timedVars, callerVars, acVars, poolVars,
                   counters, ownerVars, o_executor, o_tasks, o_ran_on>>

Other ==
    \/ OtherEnter
    \/ OtherSubmit
    \/ OtherRun
    \/ OtherExit

NextShared == Next \/ Other

SpecShared == Init /\ [][NextShared]_vars

\* The handles in this dispatch's list of tasks.
Handles == {<<executor, tasks[k]>> : k \in 1..Len(tasks)}

-----------------------------------------------------------------------------
(* Properties *)

\* The dispatcher has returned its value to f_timed / has raised to its caller.
Returned == pc \in {"timed_ret", "report", "done"}
Raised == pc = "raised" /\ pool # "none"

OrderedMode ==
    \/ submit_type = "map"
    \/ submit_type = "submit" /\ ~as_completed
CompletionMode == submit_type = "submit" /\ as_completed

Submitted == SeqToSet(tasks)
Failed == {i \in Indices : fut[i] = "FAILED"}
Unfinished == {i \in Indices : fut[i] \in {"PENDING", "CALLED", "RUNNING"}}

\* The number of positions of sequence s that hold v.
Count(s, v) == Cardinality({k \in 1..Len(s) : s[k] = v})

\* The batch ordered collection returns for this adapter and n.
OrderedBatch == [k \in 1..n |-> AdapterValue(k - 1)]

\* C1: a successful ordered submit-and-collect or map-and-collect returns a
\* result batch of length n whose position i holds the value the adapter
\* produced for task index i, whatever the order in which the tasks ended.
C1_OrderedBatchIndexAligned ==
    (Returned /\ OrderedMode) =>
        /\ Len(results) = n
        /\ \A i \in 0..(n - 1) :
              fut[i] = "FINISHED" /\ results[i + 1] = pair[i][1]

\* C1 witness: map-and-collect has returned although task 0 was not the
\* first task to end.
C1_Witness ==
    /\ pc = "done"
    /\ submit_type = "map"
    /\ n >= 2
    /\ Len(finished) = n
    /\ finished[1] # 0

\* C2: in completion-order mode the returned result batch is a permutation
\* of the batch ordered collection returns: each task index's value occurs
\* exactly once.
C2_CompletionBatchIsPermutation ==
    (Returned /\ CompletionMode) =>
        /\ Len(results) = n
        /\ \A i \in 0..(n - 1) :
              Count(results, AdapterValue(i)) = Count(OrderedBatch, AdapterValue(i))
        /\ \A k \in 1..Len(results) : Count(OrderedBatch, results[k]) = 1

\* C2 witness: a completion-order batch that is not in index order.
C2_Witness ==
    /\ pc = "done"
    /\ CompletionMode
    /\ n >= 2
    /\ results # OrderedBatch

\* C3: after a successful dispatch both batches have length n and each
\* position holds the value and the elapsed time of one and the same task
\* invocation, which in ordered and map mode is the task with that index.
C3_BatchesPairedAndSized ==
    Returned =>
        /\ Len(results) = n
        /\ Len(times) = n
        /\ \A k \in 1..n :
              \E i \in Submitted :
                 /\ fut[i] = "FINISHED"
                 /\ pair[i] = <<results[k], times[k]>>
                 /\ results_times[k] = pair[i]
                 /\ OrderedMode => i = k - 1

\* C3 witness: a returned completion-order dispatch whose tasks reported
\* different elapsed times.
C3_Witness ==
    /\ pc = "done"
    /\ CompletionMode
    /\ n >= 2
    /\ times[1] # times[2]
    /\ results[1] # 0

\* C4: when the dispatcher returns or raises, the pool has been shut down,
\* no worker is alive and no task is pending or running.
C4_PoolTornDownOnExit ==
    (Returned \/ Raised) =>
        /\ pool = "shutdown"
        /\ alive = 0
        /\ Unfinished = {}

\* C4 witness: the dispatcher raised an adapter's failure after a pool of
\* two workers had run other tasks to their end.
C4_Witness ==
    /\ Raised
    /\ exc.type = "AdapterFailure"
    /\ max_workers >= 2
    /\ \E i \in Submitted : fut[i] = "FINISHED"

\* C5: once an adapter invocation has failed the dispatch never returns a
\* batch, what it raises is a failed task's own failure, and no task is
\* invoked a second time.
C5_FailureFailsWholeDispatch ==
    /\ Failed # {} =>
          /\ ~Returned
          /\ results = <<>>
          /\ times = <<>>
          /\ exc \in {NoExc} \cup {AdapterFailure(i) : i \in Failed}
          /\ pc \in {"join", "raised"} => exc # NoExc
    /\ \A i \in Indices : runs[i] <= 1

\* C5 witness: the dispatcher raised in completion-order mode after some
\* pairs had already been gathered.
C5_Witness ==
    /\ Raised
    /\ CompletionMode
    /\ exc.type = "AdapterFailure"
    /\ Len(results_times) >= 1

\* C6 (as claimed): with n = 0 a dispatch ends without error, with empty
\* result and time batches and without any task submitted.
C6_EmptyDispatchReturnsEmpty ==
    (n = 0 /\ (Returned \/ Raised)) =>
        /\ exc = NoExc
        /\ results = <<>>
        /\ times = <<>>
        /\ tasks = <<>>
        /\ \A i \in Indices : submits[i] = 0

\* C7: with a submit_type other than 'submit' and 'map', display_results
\* raises ValueError and never creates a pool, submits a task or invokes
\* the adapter.
C7_InvalidSubmitTypeFailsFast ==
    submit_type \notin {"submit", "map"} =>
        /\ pc \in {"display", "raised"}
        /\ pc = "raised" => exc = ValueError
        /\ pool = "none"
        /\ alive = 0
        /\ tasks = <<>>
        /\ \A i \in Indices : submits[i] = 0 /\ runs[i] = 0

\* C7 witness: display_results has raised for an unrecognized submit_type
\* with tasks requested.
C7_Witness ==
    /\ pc = "raised"
    /\ submit_type = "other"
    /\ exc = ValueError
    /\ n >= 1
    /\ out = <<"Running">>

\* C8: in a successful dispatch exactly n tasks were submitted, one per
\* index of 0..n-1 in order, each was executed exactly once and its outcome
\* consumed exactly once; at no time is an index submitted, executed or
\* consumed twice.
C8_EachTaskExactlyOnce ==
    /\ \A i \in Indices : submits[i] <= 1 /\ runs[i] <= 1 /\ consumed[i] <= 1
    /\ Returned =>
          /\ Len(tasks) = n
          /\ \A i \in Indices :
                IF i < n
                THEN /\ tasks[i + 1] = i
                     /\ submits[i] = 1
                     /\ runs[i] = 1
                     /\ consumed[i] = 1
                ELSE submits[i] = 0 /\ runs[i] = 0 /\ consumed[i] = 0

\* C8 witness: an ordered submit-and-collect on a thread pool has returned
\* with several tasks.
C8_Witness ==
    /\ pc = "done"
    /\ submit_type = "submit"
    /\ ~as_completed
    /\ pool_type = "thread"
    /\ n >= 2
    /\ \A i \in 0..(n - 1) : consumed[i] = 1

\* C9: under fair scheduling every dispatcher call that has been entered
\* eventually returns or raises, and whenever it has returned all n tasks
\* have completed.
C9_DispatcherTerminates ==
    /\ (pc = "with") ~> (Returned \/ Raised)
    /\ [](Returned => \A i \in 0..(n - 1) : fut[i] = "FINISHED")

\* C9 witness: a dispatch of more tasks than workers has returned.
C9_Witness ==
    /\ pc = "timed_ret"
    /\ n > max_workers
    /\ \A i \in 0..(n - 1) : fut[i] = "FINISHED"

\* C10 (as claimed): no task is ever cancelled, and when the dispatcher
\* raises a task's failure every submitted task has been executed to
\* completion.
C10_NoTaskEverCancelled ==
    /\ \A i \in Indices : fut[i] # "CANCELLED"
    /\ (Raised /\ exc.type = "AdapterFailure") =>
          \A i \in Submitted : fut[i] \in {"FINISHED", "FAILED"} /\ runs[i] = 1

\* C10 (amended): submit-and-collect never cancels a task and raises only
\* after every submitted task has been executed to completion;
\* map-and-collect cancels only tasks that no worker has taken and that come
\* after the task whose failure it raises, and every other submitted task
\* has been executed to completion when it raises.
C10_OnlyQueuedMapTasksCancelled ==
    /\ submit_type # "map" => \A i \in Indices : fut[i] # "CANCELLED"
    /\ \A i \in Indices :
          fut[i] = "CANCELLED" =>
              /\ runs[i] = 0
              /\ exc.type = "AdapterFailure"
              /\ i > exc.index
    /\ (Raised /\ exc.type = "AdapterFailure") =>
          \A i \in Submitted :
              \/ fut[i] \in {"FINISHED", "FAILED"} /\ runs[i] = 1
              \/ fut[i] = "CANCELLED"

\* C10 witness: map-and-collect has raised with one later task cancelled
\* and another later task run to completion.
C10_Witness ==
    /\ Raised
    /\ submit_type = "map"
    /\ exc.type = "AdapterFailure"
    /\ \E i, j \in Submitted :
          /\ i > exc.index
          /\ j > exc.index
          /\ fut[i] = "CANCELLED"
          /\ fut[j] = "FINISHED"

\* The position of value v in sequence s (0 when absent).
PosOf(s, v) ==
    IF \E k \in 1..Len(s) : s[k] = v
    THEN CHOOSE k \in 1..Len(s) : s[k] = v
    ELSE 0

\* Task a's invocation ended before task b's.
EndedBefore(a, b) ==
    /\ PosOf(finished, a) > 0
    /\ PosOf(finished, b) > 0
    /\ PosOf(finished, a) < PosOf(finished, b)

\* C11 (as claimed): a completion-order dispatch returns the outcomes in the
\* order in which the tasks finished, also for tasks that finished before
\* the collector started waiting.
C11_BatchInFinishOrder ==
    (Returned /\ CompletionMode) =>
        /\ Len(results_times) = Len(finished)
        /\ \A k \in 1..Len(finished) :
              /\ results_times[k] = pair[finished[k]]
              /\ results[k] = pair[finished[k]][1]
              /\ times[k] = pair[finished[k]][2]

\* C11 (amended): in a completion-order batch the outcome of a task comes
\* before the outcome of every task that finished after it and after the
\* collector started waiting; the tasks already finished when the collector
\* started waiting come first, in no particular order.
C11_FinishOrderAfterWaitStarted ==
    (Returned /\ CompletionMode) =>
        /\ \A a, b \in Submitted :
              (EndedBefore(a, b) /\ b \notin ac_snapshot) =>
                  /\ PosOf(results_times, pair[a]) > 0
                  /\ PosOf(results_times, pair[a]) < PosOf(results_times, pair[b])
                  /\ PosOf(results, pair[a][1]) < PosOf(results, pair[b][1])
        /\ \A a \in ac_snapshot :
              PosOf(results, pair[a][1]) \in 1..Cardinality(ac_snapshot)

\* C11 witness: two tasks had finished before the collector started waiting
\* and came out against their finishing order, and a third finished later.
C11_Witness ==
    /\ pc = "done"
    /\ CompletionMode
    /\ Cardinality(ac_snapshot) = 2
    /\ n >= 3
    /\ \E a, b \in ac_snapshot :
          /\ EndedBefore(a, b)
          /\ PosOf(results, pair[b][1]) < PosOf(results, pair[a][1])

\* The least element of a non-empty set of integers.
MinOf(S) == CHOOSE x \in S : \A y \in S : x <= y

\* What the dispatcher's caller sees: the exception raised, if any, and the
\* result batch.
CallerOutcome == [exc |-> exc, results |-> results]

\* The one outcome fixed by the adapter and n alone: the unpacking error for
\* n = 0, the index-aligned batch when no index fails, and otherwise the
\* failure of the lowest failing index.
OrderedOutcome ==
    IF n = 0 THEN [exc |-> ValueError, results |-> <<>>]
    ELSE IF fails = {} THEN [exc |-> NoExc, results |-> OrderedBatch]
    ELSE [exc |-> AdapterFailure(MinOf(fails)), results |-> <<>>]

\* C12: map-and-collect and ordered submit-and-collect give their caller the
\* same outcome: for either of them, every pool kind, every max_workers and
\* every interleaving, the batch returned or the failure raised is the one
\* outcome that the adapter and n determine.
C12_MapEquivalentToOrderedSubmit ==
    (OrderedMode /\ (Returned \/ Raised)) => CallerOutcome = OrderedOutcome

\* C12 witness: map-and-collect raised the failure of the lowest of two
\* failing indices although the higher one failed first and a later task
\* was cancelled, which ordered submit-and-collect never does.
C12_Witness ==
    /\ Raised
    /\ submit_type = "map"
    /\ \E a, b \in Failed : a < b /\ EndedBefore(b, a) /\ exc = AdapterFailure(a)
    /\ \E i \in Submitted : fut[i] = "CANCELLED"

\* C14: the timed wrapper never swallows a failure.  Around the dispatcher:
\* when the dispatcher raised, f_timed raised that same failure and produced
\* no elapsed time; when f_timed produced an elapsed time the dispatcher had
\* returned without failure; either way it called the dispatcher once.
\* Around the adapter: a failed invocation left no pair, a finished one left
\* the pair of the adapter's value and an elapsed time, from one invocation.
C14_TimedNeverSwallows ==
    /\ invoked <= 1
    /\ Raised => /\ exc # NoExc
                 /\ total_time = NoTime
                 /\ invoked = 1
    /\ total_time # NoTime =>
          /\ exc = NoExc
          /\ invoked = 1
          /\ pc \in {"report", "done"}
          /\ total_time >= 0
    /\ \A i \in Indices :
          /\ fut[i] = "FAILED" => (i \in fails /\ pair[i] = NoPair)
          /\ fut[i] = "FINISHED" =>
                /\ i \notin fails
                /\ runs[i] = 1
                /\ pair[i] \in {<<AdapterValue(i), e>> : e \in ElapsedValues}

\* C14 witness: the dispatcher failed on unpacking an empty batch and the
\* wrapper passed that failure on without an elapsed time.
C14_Witness ==
    /\ Raised
    /\ exc = ValueError
    /\ total_time = NoTime
    /\ invoked = 1

\* C18: the total elapsed time spans the whole dispatch.  The first clock
\* reading is taken before the pool exists; the elapsed time is computed only
\* when all n outcomes have been collected and the pool is torn down, and it
\* covers every event of the dispatch.
C18_TotalTimeSpansDispatch ==
    /\ pool # "none" => t0 # NoTime
    /\ t0 # NoTime => t0 = 0
    /\ total_time # NoTime =>
          /\ pool = "shutdown"
          /\ alive = 0
          /\ Unfinished = {}
          /\ Len(results_times) = n
          /\ \A i \in 0..(n - 1) : consumed[i] = 1
          /\ total_time = Now - t0
          /\ total_time = 4 * n

\* C18 witness: an elapsed time was returned for a dispatch of several tasks
\* on several workers.
C18_Witness ==
    /\ pc = "report"
    /\ total_time = 4 * n
    /\ n >= 2
    /\ max_workers >= 2

OrderedSubmit == submit_type = "submit" /\ ~as_completed

\* C15: in ordered submit-and-collect the outcome of task i is collected
\* only after those of tasks 0..i-1 and only after all n tasks have been
\* submitted, and while the task whose turn it is has not finished the
\* collector cannot proceed, whatever later tasks have finished.
C15_OrderedCollectorWaitsInOrder ==
    OrderedSubmit =>
        /\ \A i \in Indices :
              consumed[i] >= 1 =>
                  /\ \A j \in 0..(i - 1) : consumed[j] = 1
                  /\ Len(tasks) = n
                  /\ pc \notin {"display", "timed", "with", "submit"}
        /\ \A k \in 1..Len(results_times) : results_times[k] = pair[k - 1]
        /\ (pc = "collect" /\ Len(results_times) < n
                /\ ~Done(Len(results_times))) =>
              /\ ~ENABLED CollectOrdered
              /\ ~ENABLED CollectEnd

\* C15 witness: the collector is blocked on unfinished task 0 while a later
\* task has already finished.
C15_Witness ==
    /\ OrderedSubmit
    /\ pc = "collect"
    /\ results_times = <<>>
    /\ fut[0] = "RUNNING"
    /\ \E j \in Submitted : j > 0 /\ fut[j] = "FINISHED"
    /\ ~ENABLED CollectOrdered

\* C16: at no time do more than max_workers tasks execute, the pool never
\* holds more than max_workers workers, and while max_workers tasks execute
\* no queued task can start.
C16_AtMostMaxWorkersExecuting ==
    /\ Cardinality(Running) <= max_workers
    /\ alive <= max_workers
    /\ Cardinality(Running) <= alive
    /\ Cardinality(Running) = max_workers =>
          \A i \in Queued : ~ENABLED Start(i)

\* C16 witness: both workers of a pool of two are busy and a submitted task
\* is still queued.
C16_Witness ==
    /\ max_workers >= 2
    /\ Cardinality(Running) = max_workers
    /\ Queued # {}

SummaryLines == {"Results", "Task times", "Actual time"}

\* C19: display_results writes its summary lines only after the dispatch
\* call has returned successfully; when the dispatch fails the failure goes
\* on to display_results' caller and nothing but the "Running" line has been
\* written.
C19_SummaryOnlyAfterSuccess ==
    /\ (\E k \in 1..Len(out) : out[k] \in SummaryLines) =>
          /\ pc = "done"
          /\ exc = NoExc
          /\ total_time # NoTime
          /\ pool = "shutdown"
          /\ out = <<"Running", "Results", "Task times", "Actual time">>
    /\ exc # NoExc => \A k \in 1..Len(out) : out[k] \notin SummaryLines
    /\ pc = "raised" => (exc # NoExc /\ out = <<"Running">>)

\* C19 witness: a dispatch failed with an adapter's failure after pairs had
\* been gathered, and only the "Running" line was written.
C19_Witness ==
    /\ Raised
    /\ exc.type = "AdapterFailure"
    /\ OrderedSubmit
    /\ Len(results_times) >= 1
    /\ out = <<"Running">>

\* C20: when ordered submit-and-collect surfaces an adapter's failure it is
\* the failure of the lowest failing index, whichever task failed first; the
\* outcomes of all lower indices had been collected and no batch is exposed.
C20_LowestFailingIndexSurfaces ==
    (OrderedSubmit /\ exc.type = "AdapterFailure") =>
        /\ exc.index = MinOf(fails)
        /\ fut[exc.index] = "FAILED"
        /\ Len(results_times) = exc.index
        /\ \A j \in 0..(exc.index - 1) : consumed[j] = 1
        /\ results = <<>>
        /\ times = <<>>

\* C20 witness: ordered submit-and-collect raised the failure of a task
\* that failed after a higher-index task had failed, with the pairs of the
\* lower indices gathered and dropped.
C20_Witness ==
    /\ Raised
    /\ OrderedSubmit
    /\ exc.type = "AdapterFailure"
    /\ exc.index >= 1
    /\ \E b \in Failed : b > exc.index /\ EndedBefore(b, exc.index)

\* Two batches hold the same values, each as often as the other.
SameValues(a, b) ==
    /\ Len(a) = Len(b)
    /\ \A v \in SeqToSet(a) \cup SeqToSet(b) : Count(a, v) = Count(b, v)

\* C13 (as claimed): a second call with the same arguments that returns
\* gives a result batch identical to the first call's, in every mode.
C13_SecondCallIdenticalBatch ==
    (second /\ pc = "done") => results = prev.results

\* C13 (amended): a second call with the same arguments returns exactly when
\* the first did; in ordered submit-and-collect and map-and-collect its
\* result batch is identical to the first call's, in completion-order mode
\* it holds the same values, possibly in another order.
C13_SecondCallSameValues ==
    /\ (second /\ pc = "done") =>
          /\ prev.exc = NoExc
          /\ OrderedMode => results = prev.results
          /\ CompletionMode => SameValues(results, prev.results)
    /\ (second /\ pc = "raised") => prev.exc # NoExc

\* C13 witness: two completion-order calls with the same arguments have
\* returned batches in different orders.
C13_Witness ==
    /\ second
    /\ pc = "done"
    /\ CompletionMode
    /\ Len(results) = n
    /\ results # prev.results

\* C17: every invocation that has entered its with statement constructed
\* exactly one pool, no two invocations hold the same pool, whether they
\* overlap or follow one another, tasks run only on the pool of the
\* invocation that submitted them, and no handle is in both lists.
C17_PoolOwnedByOneInvocation ==
    /\ (executor = NoPool) <=> (pool = "none")
    /\ Cardinality(created) =
          (IF executor = NoPool THEN 0 ELSE 1) + (IF o_executor = NoPool THEN 0 ELSE 1)
    /\ executor # NoPool => executor # o_executor
    /\ \A i \in Indices :
          /\ ran_on[i] \in {NoPool, executor}
          /\ fut[i] \in {"RUNNING", "FINISHED", "FAILED"} => ran_on[i] = executor
          /\ ran_on[i] # NoPool => ran_on[i] # o_executor
    /\ o_ran_on \in {NoPool, o_executor}
    /\ o_ran_on # NoPool => o_ran_on # executor
    /\ Handles \cap o_tasks = {}

\* C17 witness: both invocations are inside their with statements, each with
\* a task run by a worker of its own pool.
C17_Witness ==
    /\ pool = "open"
    /\ o_pc = "collect"
    /\ o_ran_on # NoPool
    /\ Running # {}
    /\ Len(tasks) >= 2

=============================================================================
